---------------------------- MODULE Spec2Model ----------------------------
(***************************************************************************)
(* The Arrow Game (src/main.js): the 5x5 grid, the action classifier, the  *)
(* edge check, the move handler and the gravity animation chains.          *)
(*                                                                         *)
(* A cell's dataset.status is modelled as an integer: 0 for "0" (empty),   *)
(* an arrow id for an arrow, AnimatingTo for the string "animatingto".     *)
(* parseInt of "animatingto" is NaN, modelled by the integer NaN, which is *)
(* no arrow id; the code compares a NaN operand only after testing the     *)
(* other operand against an arrow id, so the integer behaves as NaN does.  *)
(***************************************************************************)
EXTENDS Integers, FiniteSets, Sequences, TLC

VARIABLES
  cells,              \* cell id -> dataset.status of the grid cell
  score,              \* global score
  spins_remaining,    \* global spins_remaining
  arrows_placed,      \* global arrows_placed
  animating_columns,  \* global animating_columns (a list without duplicates)
  anims,              \* the applyGravitySteps chains waiting for an animation to finish
  drag,               \* the grid drag in progress (the cell clone), or NoDrag
  last,               \* the locals of the latest handleAction call
  next_arrow,         \* global next_arrow
  next_next_arrow,    \* global next_next_arrow
  na_drag,            \* TRUE while the clone of the next arrow is being dragged
  dropped,            \* the insertNewArrow call of the latest next-arrow drop, if it made one
  game_over,          \* TRUE once endGameMenu has been called
  gravity_call,       \* the arguments of the applyActionGravity call made on its own
  end_game,           \* whether endGameCheck has been called, and what it last returned
  saved,              \* window.localStorage: the keys saveGame writes
  page                \* "loading" until initializeGame has run, "live", "hidden" after pagehide

vars == <<cells, score, spins_remaining, arrows_placed, animating_columns, anims, drag, last,
          next_arrow, next_next_arrow, na_drag, dropped, game_over, gravity_call,
          end_game, saved, page>>

\* What neither a grid drag nor a gravity step touches.
arrow_vars == <<next_arrow, next_next_arrow, na_drag, dropped, game_over, gravity_call,
                end_game, saved, page>>

-----------------------------------------------------------------------------
(* Grid geometry                                                           *)

grid_size == 5

Rows == 0 .. (grid_size - 1)

CellIds == 0 .. (grid_size * grid_size - 1)

AnimatingTo == -1

NaN == -2

Abs(n) == IF n < 0 THEN -n ELSE n

grid_id(i, j) == i * 5 + j

grid_indices(n) == << (n - (n % 5)) \div 5, n % 5 >>

cell_in_gravity_range(i, j) == i >= 0 /\ i <= 4 /\ j >= 0 /\ j <= 4

can_be_dropped_to(g, i, j) ==
  IF ~cell_in_gravity_range(i, j) THEN FALSE ELSE g[grid_id(i, j)] = 0

\* Status strings the game never writes, as localStorage may hold them:
\* "null", a number that is no arrow id, and the digits of v followed by
\* other characters.
NullText == -3

Foreign == 99

Padded(v) == 100 + v

parseInt(status) ==
  IF status \in {AnimatingTo, NullText} THEN NaN
  ELSE IF status >= 100 THEN status - 100
  ELSE status

remove_element(list, elem) == list \ {elem}

-----------------------------------------------------------------------------
(* Arrow taxonomy and the action classifier                                *)

Merge == "merge"

Combine == "combine"

Cancel == "cancel"

NoAction == "none"

basic_arr == {1, 5, 8, 3, 10, 4, 2, 7}

mid_arr == {14, 9, 6, 11}

max_arr == {17, 23, 40}

arrows == {1, 5, 8, 3, 10, 4, 2, 7, 14, 9, 6, 11, 17, 23, 40}

\* action_triples with the sign of the "down" arrow's distance lost.
action_triples_down_sign ==
  [a \in basic_arr \cup mid_arr |->
     CASE a = 1  -> <<5, 5>>
       [] a = 5  -> <<5, 1>>
       [] a = 8  -> <<1, 3>>
       [] a = 3  -> <<-1, 8>>
       [] a = 2  -> <<4, 7>>
       [] a = 7  -> <<-4, 2>>
       [] a = 10 -> <<6, 4>>
       [] a = 4  -> <<-6, 10>>
       [] a = 11 -> << <<{1, 5}, 1>>, 6 >>
       [] a = 6  -> << <<{1, 5}, 5>>, 11 >>
       [] a = 9  -> << <<{4, 6}, 4>>, 14 >>
       [] a = 14 -> << <<{4, 6}, 6>>, 9 >>]

\* action_triples with the cancel distances of 6 and 11 exchanged.
action_triples_cancel_swapped ==
  [a \in basic_arr \cup mid_arr |->
     CASE a = 1  -> <<5, 5>>
       [] a = 5  -> <<-5, 1>>
       [] a = 8  -> <<1, 3>>
       [] a = 3  -> <<-1, 8>>
       [] a = 2  -> <<4, 7>>
       [] a = 7  -> <<-4, 2>>
       [] a = 10 -> <<6, 4>>
       [] a = 4  -> <<-6, 10>>
       [] a = 11 -> << <<{1, 5}, 5>>, 6 >>
       [] a = 6  -> << <<{1, 5}, 1>>, 11 >>
       [] a = 9  -> << <<{4, 6}, 4>>, 14 >>
       [] a = 14 -> << <<{4, 6}, 6>>, 9 >>]

\* action_triples with 5 entered as the inverse of 3.
action_triples_inverse_of_3 ==
  [a \in basic_arr \cup mid_arr |->
     CASE a = 1  -> <<5, 5>>
       [] a = 5  -> <<-5, 1>>
       [] a = 8  -> <<1, 3>>
       [] a = 3  -> <<-1, 5>>
       [] a = 2  -> <<4, 7>>
       [] a = 7  -> <<-4, 2>>
       [] a = 10 -> <<6, 4>>
       [] a = 4  -> <<-6, 10>>
       [] a = 11 -> << <<{1, 5}, 1>>, 6 >>
       [] a = 6  -> << <<{1, 5}, 5>>, 11 >>
       [] a = 9  -> << <<{4, 6}, 4>>, 14 >>
       [] a = 14 -> << <<{4, 6}, 6>>, 9 >>]

\* basic arrow: <<distance to combine, inverse>>;
\* two-directional arrow: << <<combine distances, cancel distance>>, inverse >>.
action_triples ==
  [a \in basic_arr \cup mid_arr |->
     CASE a = 1  -> <<5, 5>>
       [] a = 5  -> <<-5, 1>>
       [] a = 8  -> <<1, 3>>
       [] a = 3  -> <<-1, 8>>
       [] a = 2  -> <<4, 7>>
       [] a = 7  -> <<-4, 2>>
       [] a = 10 -> <<6, 4>>
       [] a = 4  -> <<-6, 10>>
       [] a = 11 -> << <<{1, 5}, 1>>, 6 >>
       [] a = 6  -> << <<{1, 5}, 5>>, 11 >>
       [] a = 9  -> << <<{4, 6}, 4>>, 14 >>
       [] a = 14 -> << <<{4, 6}, 6>>, 9 >>]

\* classifyBasic with the Merge test on the signed distance.
classifyBasic_signed_merge(arrow1, arrow2, dist) ==
  LET action_triple == action_triples[arrow1]
      valid_dist == action_triple[1]
      inv == action_triple[2]
  IN  IF arrow1 = arrow2 /\ dist = valid_dist THEN Merge
      ELSE IF arrow2 = inv /\ dist = valid_dist THEN Combine
      ELSE IF arrow2 = inv /\ dist = -valid_dist THEN Cancel
      ELSE NoAction

\* classifyBasic with the Cancel test on the unnegated distance (shadowed by Combine).
classifyBasic_cancel_unsigned(arrow1, arrow2, dist) ==
  LET action_triple == action_triples[arrow1]
      valid_dist == action_triple[1]
      inv == action_triple[2]
  IN  IF arrow1 = arrow2 /\ Abs(dist) = Abs(valid_dist) THEN Merge
      ELSE IF arrow2 = inv /\ dist = valid_dist THEN Combine
      ELSE IF arrow2 = inv /\ dist = valid_dist THEN Cancel
      ELSE NoAction

\* classifyBasic without the Cancel test.
classifyBasic_no_cancel(arrow1, arrow2, dist) ==
  LET action_triple == action_triples[arrow1]
      valid_dist == action_triple[1]
      inv == action_triple[2]
  IN  IF arrow1 = arrow2 /\ Abs(dist) = Abs(valid_dist) THEN Merge
      ELSE IF arrow2 = inv /\ dist = valid_dist THEN Combine
      ELSE NoAction

classifyBasic(arrow1, arrow2, dist) ==
  LET action_triple == action_triples[arrow1]
      valid_dist == action_triple[1]
      inv == action_triple[2]
  IN  IF arrow1 = arrow2 /\ Abs(dist) = Abs(valid_dist) THEN Merge
      ELSE IF arrow2 = inv /\ dist = valid_dist THEN Combine
      ELSE IF arrow2 = inv /\ dist = -valid_dist THEN Cancel
      ELSE NoAction

\* classifyMid with the Cancel test on the signed distance.
classifyMid_signed_cancel(arrow1, arrow2, dist) ==
  LET action_triple == action_triples[arrow1]
      valid_dist == action_triple[1]
      inv == action_triple[2]
  IN  IF arrow1 = arrow2 /\ dist = valid_dist[2] THEN Cancel
      ELSE IF arrow2 = inv /\ Abs(dist) \in valid_dist[1] THEN Combine
      ELSE NoAction

classifyMid(arrow1, arrow2, dist) ==
  LET action_triple == action_triples[arrow1]
      valid_dist == action_triple[1]
      inv == action_triple[2]
  IN  IF arrow1 = arrow2 /\ Abs(dist) = valid_dist[2] THEN Cancel
      ELSE IF arrow2 = inv /\ Abs(dist) \in valid_dist[1] THEN Combine
      ELSE NoAction

\* classifyMax with every four- or eight-directional arrow cancelling itself.
classifyMax_any_equal(arrow1, arrow2, dist) ==
  IF Abs(dist) \in {1, 4, 5, 6}
  THEN IF arrow1 = arrow2 /\ arrow1 \in max_arr THEN Cancel
       ELSE IF (arrow1 = 17 /\ arrow2 = 23) \/ (arrow1 = 23 /\ arrow2 = 17) THEN Combine
       ELSE NoAction
  ELSE NoAction

\* classifyMax without the test that the two equal arrows are 40.
classifyMax_no_40_test(arrow1, arrow2, dist) ==
  IF Abs(dist) \in {1, 4, 5, 6}
  THEN IF arrow1 = arrow2 THEN Cancel
       ELSE IF (arrow1 = 17 /\ arrow2 = 23) \/ (arrow1 = 23 /\ arrow2 = 17) THEN Combine
       ELSE NoAction
  ELSE NoAction

classifyMax(arrow1, arrow2, dist) ==
  IF Abs(dist) \in {1, 4, 5, 6}
  THEN IF arrow1 = arrow2 /\ arrow1 = 40 THEN Cancel
       ELSE IF (arrow1 = 17 /\ arrow2 = 23) \/ (arrow1 = 23 /\ arrow2 = 17) THEN Combine
       ELSE NoAction
  ELSE NoAction

classifyAction(arrow1, arrow2, dist) ==
  IF arrow1 \in basic_arr THEN classifyBasic(arrow1, arrow2, dist)
  ELSE IF arrow1 \in mid_arr THEN classifyMid(arrow1, arrow2, dist)
  ELSE classifyMax(arrow1, arrow2, dist)

\* resolveEdgeError with the diagonal test accepting a row difference of at most one.
resolveEdgeError_rows_le1(src, dest, dist0) ==
  LET dist == Abs(dist0)
      src_r == src[1]
      dest_r == dest[1]
  IN  IF dist = grid_size THEN TRUE
      ELSE IF dist = 1 THEN src_r = dest_r
      ELSE IF dist = grid_size - 1 \/ dist = grid_size + 1 THEN Abs(src_r - dest_r) <= 1
      ELSE TRUE

\* resolveEdgeError without the horizontal test.
resolveEdgeError_no_horizontal(src, dest, dist0) ==
  LET dist == Abs(dist0)
      src_r == src[1]
      dest_r == dest[1]
  IN  IF dist = grid_size THEN TRUE
      ELSE IF dist = grid_size - 1 \/ dist = grid_size + 1 THEN Abs(src_r - dest_r) = 1
      ELSE TRUE

\* resolveEdgeError without the diagonal test.
resolveEdgeError_no_diagonal(src, dest, dist0) ==
  LET dist == Abs(dist0)
      src_r == src[1]
      dest_r == dest[1]
  IN  IF dist = grid_size THEN TRUE
      ELSE IF dist = 1 THEN src_r = dest_r
      ELSE TRUE

\* src and dest are <<row, column>> pairs.
resolveEdgeError(src, dest, dist0) ==
  LET dist == Abs(dist0)
      src_r == src[1]
      dest_r == dest[1]
  IN  IF dist = grid_size THEN TRUE
      ELSE IF dist = 1 THEN src_r = dest_r
      ELSE IF dist = grid_size - 1 \/ dist = grid_size + 1 THEN Abs(src_r - dest_r) = 1
      ELSE TRUE

-----------------------------------------------------------------------------
(* Gravity: one applyGravitySteps chain per falling arrow                  *)
(* A world w is [cells, animating_columns, anims]; a chain is the closure  *)
(* of applyGravitySteps: i, j (its arguments), the animation environment   *)
(* (cell_index, content) and k, the number of the animation it waits for.  *)

World(c, ac, an) == [cells |-> c, animating_columns |-> ac, anims |-> an]

\* updateGridCell with the row and the column exchanged.
updateGridCell_transposed(w, i, j, content) ==
  IF j \in w.animating_columns THEN w
  ELSE [w EXCEPT !.cells[grid_id(j, i)] = content]

\* Refused when the column is animating; otherwise writes the status.
updateGridCell(w, i, j, content) ==
  IF j \in w.animating_columns THEN w
  ELSE [w EXCEPT !.cells[grid_id(i, j)] = content]

\* getAnimationEnvironment without the test of the cell in the next row.
getAnimationEnvironment_no_drop_test(w, i, j) ==
  IF ~cell_in_gravity_range(i, j) THEN w
  ELSE World([w.cells EXCEPT ![grid_id(i, j)] = 0, ![grid_id(i + 1, j)] = AnimatingTo],
             w.animating_columns \cup {j},
             w.anims \cup {[i |-> i, j |-> j, cell_index |-> <<i, j>>,
                            content |-> w.cells[grid_id(i, j)], k |-> 1]})

\* The empty environment {} leaves the world as it is and starts no chain.
getAnimationEnvironment(w, i, j) ==
  IF ~cell_in_gravity_range(i, j) THEN w
  ELSE IF ~can_be_dropped_to(w.cells, i + 1, j) THEN w
  ELSE World([w.cells EXCEPT ![grid_id(i, j)] = 0, ![grid_id(i + 1, j)] = AnimatingTo],
             w.animating_columns \cup {j},
             w.anims \cup {[i |-> i, j |-> j, cell_index |-> <<i, j>>,
                            content |-> w.cells[grid_id(i, j)], k |-> 1]})

\* The synchronous part of applyGravitySteps: the environment and the first animation.
applyGravitySteps(w, i, j) == getAnimationEnvironment(w, i, j)

RECURSIVE applyActionGravity(_, _, _)
applyActionGravity(w, i, j) ==
  IF i < 0 \/ j < 0 \/ i >= 4 \/ j > 4 THEN w
  ELSE LET status == w.cells[grid_id(i, j)]
       IN  IF status = 0 \/ status = AnimatingTo THEN w
           ELSE applyActionGravity(applyGravitySteps(w, i, j), i - 1, j)

updateEnvironmentMidAnimation(w, anim_env) ==
  LET new_row == anim_env.cell_index[1] + 1
      same_col == anim_env.cell_index[2]
  IN  World([w.cells EXCEPT ![grid_id(anim_env.cell_index[1], same_col)] = 0,
                            ![grid_id(new_row + 1, same_col)] = AnimatingTo,
                            ![grid_id(new_row, same_col)] = 0],
            w.animating_columns,
            (w.anims \ {anim_env})
              \cup {[anim_env EXCEPT !.cell_index = <<new_row, same_col>>, !.k = @ + 1]})

\* updateEnvironmentPostAnimation without the remove_element call.
updateEnvironmentPostAnimation_keeps_lock(w, anim_env) ==
  LET row == anim_env.cell_index[1]
      col == anim_env.cell_index[2]
      w1 == World(w.cells, w.animating_columns, w.anims \ {anim_env})
  IN  IF w.cells[grid_id(row + 1, col)] = AnimatingTo
      THEN updateGridCell(w1, row + 1, col, anim_env.content)
      ELSE w1

\* updateEnvironmentPostAnimation emptying animating_columns.
updateEnvironmentPostAnimation_unlocks_all(w, anim_env) ==
  LET row == anim_env.cell_index[1]
      col == anim_env.cell_index[2]
      w1 == World(w.cells, {}, w.anims \ {anim_env})
  IN  IF w.cells[grid_id(row + 1, col)] = AnimatingTo
      THEN updateGridCell(w1, row + 1, col, anim_env.content)
      ELSE w1

updateEnvironmentPostAnimation(w, anim_env) ==
  LET row == anim_env.cell_index[1]
      col == anim_env.cell_index[2]
      w1 == World(w.cells, remove_element(w.animating_columns, col), w.anims \ {anim_env})
  IN  IF w.cells[grid_id(row + 1, col)] = AnimatingTo
      THEN updateGridCell(w1, row + 1, col, anim_env.content)
      ELSE w1

\* The callback of a chain's k-th animation (anim_k.finished.then).
GravityStep(anim_env) ==
  LET w == World(cells, animating_columns, anims)
      w2 == IF anim_env.k < 4 /\ can_be_dropped_to(cells, anim_env.i + anim_env.k + 1, anim_env.j)
            THEN updateEnvironmentMidAnimation(w, anim_env)
            ELSE updateEnvironmentPostAnimation(w, anim_env)
  IN  /\ anim_env \in anims
      /\ cells' = w2.cells
      /\ animating_columns' = w2.animating_columns
      /\ anims' = w2.anims
      /\ UNCHANGED <<score, spins_remaining, arrows_placed, drag, last>>
      /\ UNCHANGED arrow_vars

-----------------------------------------------------------------------------
(* The grid drag and handleAction                                          *)

NoDrag == [origin |-> 0, status |-> 0, active |-> FALSE]

\* A drop point: a cell of the grid, or Outside when x, y miss the grid.
Outside == grid_size * grid_size

DropPoints == CellIds \cup {Outside}

\* The relation of the arrow type to the score, with every arrow scored as a basic one.
TierScore_flat(src_content) == 2

\* u of handleAction.
TierScore(src_content) ==
  IF src_content \in basic_arr THEN 2
  ELSE IF src_content \in mid_arr THEN 4
  ELSE IF src_content = 40 THEN 9
  ELSE 6

\* The score a Merge, a Combine and a Cancel add.
ScoreGain(action, u) ==
  IF action = Merge THEN 2
  ELSE IF action = Combine THEN 2 ^ (u + 1)
  ELSE 2 ^ u + 2

\* The swap bonus granted on every Cancel.
BonusSpins_any_cancel(action, src_content, dest_content) ==
  IF action = Cancel THEN 1 ELSE 0

\* spins_remaining += 1 when two maxed arrows cancel.
BonusSpins(action, src_content, dest_content) ==
  IF action = Cancel /\ src_content + dest_content = 80 THEN 1 ELSE 0

\* new_dest_content with the source alone written by a Combine.
NewDestContent_source_only(action, src_content, dest_content) ==
  IF action = Merge THEN src_content
  ELSE IF action = Combine THEN src_content % 80
  ELSE 0

\* new_dest_content with the two statuses joined as strings, not added.
NewDestContent_joined(action, src_content, dest_content) ==
  IF action = Merge THEN src_content
  ELSE IF action = Combine THEN (10 * src_content + dest_content) % 80
  ELSE 0

\* new_dest_content with the sum of a Combine reduced mod 40.
NewDestContent_mod40(action, src_content, dest_content) ==
  IF action = Merge THEN src_content
  ELSE IF action = Combine THEN (src_content + dest_content) % 40
  ELSE 0

\* new_dest_content as the switch of handleAction sets it.
NewDestContent(action, src_content, dest_content) ==
  IF action = Merge THEN src_content
  ELSE IF action = Combine THEN (src_content + dest_content) % 80
  ELSE 0

\* The locals of a handleAction call; stage tells how far the call went:
\* "outside" (drop point off the grid), "locked" (a column is animating),
\* "edge" (resolveEdgeError refused), "classified" (classifyAction was called).
Locals(stage, origin, dest, src_content, dest_content, action_dist, action, u, ns, nd) ==
  [stage |-> stage, origin |-> origin, dest |-> dest, src_content |-> src_content,
   dest_content |-> dest_content, action_dist |-> action_dist, action |-> action,
   u |-> u, new_src_content |-> ns, new_dest_content |-> nd]

NoLocals == Locals("init", 0, 0, 0, 0, 0, NoAction, 0, 0, 0)

\* endGameCheck has not been called.
NoCheck == [called |-> FALSE, result |-> FALSE]

\* No applyActionGravity call has been made on its own.
NoCall == [i |-> 0, j |-> 0, called |-> FALSE]

\* No insertNewArrow call: no drop yet, or a drop outside the grid.
NoDrop == [i |-> 0, j |-> 0, content |-> 0, ok |-> FALSE, called |-> FALSE]

\* localStorage without a saved game.
NoSave ==
  [did_save_content |-> FALSE, cells |-> [c \in CellIds |-> 0], next_arrow |-> 0,
   next_next_arrow |-> 0, spins |-> <<>>, score |-> <<>>]

\* onmousedown / touchstart on the grid: clones the touched cell, whatever it holds.
GridDrag(n) ==
  /\ ~drag.active
  /\ drag' = [origin |-> n, status |-> cells[n], active |-> TRUE]
  /\ UNCHANGED <<cells, score, spins_remaining, arrows_placed, animating_columns, anims, last>>
  /\ UNCHANGED arrow_vars

\* The gravity handleAction starts once both cells are written.
ActionGravity(w, src_content, dest_content, action_dist, origin, cell_i, cell_j, ns, nd) ==
  IF src_content = 1 /\ dest_content = 5 /\ action_dist = -5
  THEN applyActionGravity(w, cell_i - 1, cell_j)
  ELSE IF src_content = 5 /\ dest_content = 1 /\ action_dist = 5
  THEN applyActionGravity(w, origin[1] - 1, origin[2])
  ELSE LET w1 == IF ns = 0 THEN applyActionGravity(w, origin[1] - 1, origin[2]) ELSE w
       IN  IF nd = 0 THEN applyActionGravity(w1, cell_i - 1, cell_j) ELSE w1

\* The drag ends at drop point p: handleAction(cell, cell_clone, x, y).
HandleAction(p) ==
  /\ drag.active
  /\ drag' = NoDrag
  /\ UNCHANGED arrow_vars
  /\ IF p = Outside
     THEN /\ last' = Locals("outside", drag.origin, p, 0, 0, 0, NoAction, 0, 0, 0)
          /\ UNCHANGED <<cells, score, spins_remaining, arrows_placed, animating_columns, anims>>
     ELSE
     LET cell_i == grid_indices(p)[1]
         cell_j == grid_indices(p)[2]
         src_content == parseInt(drag.status)
         dest_content == parseInt(cells[p])
         origin == grid_indices(drag.origin)
         action_dist == grid_id(cell_i, cell_j) - drag.origin
         action == classifyAction(src_content, dest_content, action_dist)
         u == TierScore(src_content)
         ns == 0
         nd == NewDestContent(action, src_content, dest_content)
         w0 == World(cells, animating_columns, anims)
         w1 == updateGridCell(w0, origin[1], origin[2], ns)
         w2 == updateGridCell(w1, cell_i, cell_j, nd)
         w3 == ActionGravity(w2, src_content, dest_content, action_dist, origin, cell_i, cell_j, ns, nd)
     IN  IF cell_j \in animating_columns \/ (drag.origin % 5) \in animating_columns
         THEN /\ last' = Locals("locked", drag.origin, p, 0, 0, 0, NoAction, 0, 0, 0)
              /\ UNCHANGED <<cells, score, spins_remaining, arrows_placed, animating_columns, anims>>
         ELSE IF ~resolveEdgeError(origin, <<cell_i, cell_j>>, action_dist)
         THEN /\ last' = Locals("edge", drag.origin, p, src_content, dest_content, action_dist,
                                NoAction, 0, 0, 0)
              /\ UNCHANGED <<cells, score, spins_remaining, arrows_placed, animating_columns, anims>>
         ELSE IF action = NoAction
         THEN /\ last' = Locals("classified", drag.origin, p, src_content, dest_content,
                                action_dist, action, u, 0, 0)
              /\ UNCHANGED <<cells, score, spins_remaining, arrows_placed, animating_columns, anims>>
         ELSE /\ last' = Locals("classified", drag.origin, p, src_content, dest_content,
                                action_dist, action, u, ns, nd)
              /\ score' = score + ScoreGain(action, u)
              /\ spins_remaining' = spins_remaining + BonusSpins(action, src_content, dest_content)
              /\ arrows_placed' = (IF action = Cancel THEN arrows_placed - 2 ELSE arrows_placed - 1)
              /\ cells' = w3.cells
              /\ animating_columns' = w3.animating_columns
              /\ anims' = w3.anims

-----------------------------------------------------------------------------
(* SpecMove: one drag, from every board of a family of settled boards      *)

\* The board with arrow a in cell s and b in the other cells; column s is
\* kept settled: nothing stands above an empty s, and an arrow s rests on
\* arrows (on copies of a when b is empty).
Board(s, a, b) ==
  [c \in CellIds |->
     IF c = s THEN a
     ELSE IF c % 5 = s % 5 /\ c < s THEN (IF a = 0 THEN 0 ELSE b)
     ELSE IF c % 5 = s % 5 /\ c > s THEN (IF b = 0 THEN a ELSE b)
     ELSE b]

Occupied(g) == {c \in CellIds : g[c] # 0}

StartScores == {0, 100}

InitMove ==
  \E s \in CellIds, a \in arrows \cup {0}, b \in arrows \cup {0}, sc \in StartScores :
     /\ cells = Board(s, a, b)
     /\ score = sc
     /\ spins_remaining = 3
     /\ arrows_placed = Cardinality(Occupied(Board(s, a, b)))
     /\ animating_columns = {}
     /\ anims = {}
     /\ drag = [origin |-> s, status |-> a, active |-> TRUE]
     /\ last = NoLocals
     /\ next_arrow = 1
     /\ next_next_arrow = 5
     /\ na_drag = FALSE
     /\ dropped = NoDrop
     /\ game_over = FALSE
     /\ gravity_call = NoCall
     /\ end_game = NoCheck
     /\ saved = NoSave
     /\ page = "live"

Drop == \E p \in DropPoints : HandleAction(p)

Fall == \E anim_env \in anims : GravityStep(anim_env)

NextMove == Drop \/ Fall

SpecMove == InitMove /\ [][NextMove]_vars

-----------------------------------------------------------------------------
(* Properties of a move                                                    *)

\* A step that is a handleAction call.
Handled == drag.active /\ ~drag'.active

\* A handleAction call that reached the switch with an action to apply.
Applied(l) == l.stage = "classified" /\ l.action # NoAction

NaturalDistance(v) == action_triples[v][1]

InverseOf(v) ==
  CASE v = 1 -> 5 [] v = 5 -> 1 [] v = 8 -> 3 [] v = 3 -> 8
    [] v = 10 -> 4 [] v = 4 -> 10 [] v = 2 -> 7 [] v = 7 -> 2
    [] v = 6 -> 11 [] v = 11 -> 6 [] v = 9 -> 14 [] v = 14 -> 9

\* The source cell after the call: empty, or already the target of the arrow above it.
Vacated(g, c) == g[c] \in {0, AnimatingTo}

\* Arrow v is in cell d, or, when d stands right above the emptied source s,
\* v has started to fall from d into s.
Holds(g, an, d, s, v) ==
  IF d = s - 5
  THEN \E e \in an : e.content = v /\ e.cell_index = grid_indices(d) /\ e.k = 1
  ELSE g[d] = v

\* C1: a basic arrow v dropped on another v at its natural distance n or at -n
\* is a Merge: handleAction writes v to the destination and 0 to the source
\* and adds exactly 2 to the score.
C1_MergeOfEqualBasics ==
  [][ (/\ Handled
       /\ last'.stage = "classified"
       /\ last'.src_content \in basic_arr
       /\ last'.dest_content = last'.src_content
       /\ last'.action_dist \in {NaturalDistance(last'.src_content),
                                 -NaturalDistance(last'.src_content)})
      => (/\ last'.action = Merge
          /\ last'.new_dest_content = last'.src_content
          /\ last'.new_src_content = 0
          /\ score' = score + 2
          /\ Vacated(cells', last'.origin)
          /\ Holds(cells', anims', last'.dest, last'.origin, last'.src_content)) ]_vars

C1_Witness ==
  /\ last.action = Merge
  /\ last.src_content = 1
  /\ last.action_dist = -5
  /\ score = 102

\* C2: a basic arrow v dropped on its inverse w at the natural distance n is
\* a Combine: the destination receives (v + w) mod 80 and the source is emptied.
C2_CombineWithInverse ==
  [][ (/\ Handled
       /\ last'.stage = "classified"
       /\ last'.src_content \in basic_arr
       /\ last'.dest_content = InverseOf(last'.src_content)
       /\ last'.action_dist = NaturalDistance(last'.src_content))
      => (/\ last'.action = Combine
          /\ last'.new_dest_content = (last'.src_content + last'.dest_content) % 80
          /\ last'.new_src_content = 0
          /\ Vacated(cells', last'.origin)
          /\ Holds(cells', anims', last'.dest, last'.origin,
                   (last'.src_content + last'.dest_content) % 80)) ]_vars

C2_Witness ==
  /\ last.action = Combine
  /\ last.src_content = 10
  /\ last.dest_content = 4
  /\ last.new_dest_content = 14
  /\ cells[last.dest] = 14

\* C3: a basic arrow v dropped on its inverse w at distance -n is a Cancel:
\* both the source and the destination are emptied.
C3_CancelWithInverse ==
  [][ (/\ Handled
       /\ last'.stage = "classified"
       /\ last'.src_content \in basic_arr
       /\ last'.dest_content = InverseOf(last'.src_content)
       /\ last'.action_dist = -NaturalDistance(last'.src_content))
      => (/\ last'.action = Cancel
          /\ last'.new_dest_content = 0
          /\ last'.new_src_content = 0
          /\ Vacated(cells', last'.origin)
          /\ Vacated(cells', last'.dest)) ]_vars

C3_Witness ==
  /\ last.action = Cancel
  /\ last.src_content = 8
  /\ last.dest_content = 3
  /\ cells[last.origin] = 0
  /\ cells[last.dest] = 0

\* The drag of the "down" arrow (5) of cell 4 onto the "up" arrow (1) of cell 9.
DownOntoUp ==
  /\ Handled
  /\ last'.stage = "classified"
  /\ last'.origin = 4 /\ last'.dest = 9
  /\ last'.src_content = 5 /\ last'.dest_content = 1

\* C4 as stated: the drag of 5 in cell 4 onto 1 in cell 9 is a Combine that
\* leaves 6 in cell 9, clears cell 4 and adds 8 to the score.
C4_AsStated ==
  [][ DownOntoUp
      => (/\ last'.action = Combine
          /\ cells'[9] = 6
          /\ cells'[4] = 0
          /\ score' = score + 8) ]_vars

\* C4 (amended): the drag of 5 in cell 4 onto 1 in cell 9 (distance +5) is a
\* Cancel: cell 9 and cell 4 are both cleared and the score grows by 6.
C4_DownOntoUpCancels ==
  [][ DownOntoUp
      => (/\ last'.action = Cancel
          /\ last'.action_dist = 5
          /\ cells'[9] = 0
          /\ cells'[4] = 0
          /\ score' = score + 6) ]_vars

C4_Witness ==
  /\ last.stage = "classified"
  /\ last.origin = 4 /\ last.dest = 9
  /\ last.src_content = 5 /\ last.dest_content = 1
  /\ last.action = Cancel
  /\ cells[4] = 0 /\ cells[9] = 0
  /\ score = 106

\* C5: classifyAction(a, b, d) and classifyAction(b, a, -d) give the same
\* outcome, and an applied action scores the same in the two orientations.
C5_MirrorSymmetry ==
  last.stage = "classified"
  => (/\ classifyAction(last.dest_content, last.src_content, -last.action_dist) = last.action
      /\ (last.action # NoAction
          => ScoreGain(last.action, TierScore(last.dest_content))
             = ScoreGain(last.action, last.u)))

C5_Witness ==
  /\ last.stage = "classified"
  /\ last.src_content = 6
  /\ last.dest_content = 11
  /\ last.action_dist = -5
  /\ last.action = Combine

RowOf(n) == n \div 5

ColOf(n) == n % 5

\* C6: the edge check accepts |dist| = 5; accepts |dist| = 1 iff the two
\* cells share a row; accepts |dist| = 4 or 6 iff their rows differ by
\* exactly 1; accepts every other distance.  Cell 4 to cell 10 is refused,
\* cell 3 to cell 9 is accepted.
C6_EdgeRule ==
  last.stage \in {"edge", "classified"}
  => LET d == Abs(last.dest - last.origin)
         rows == Abs(RowOf(last.dest) - RowOf(last.origin))
         accepted == last.stage = "classified"
     IN  /\ d = 5 => accepted
         /\ d = 1 => (accepted <=> rows = 0)
         /\ d \in {4, 6} => (accepted <=> rows = 1)
         /\ d \notin {1, 4, 5, 6} => accepted
         /\ (last.origin = 4 /\ last.dest = 10) => ~accepted
         /\ (last.origin = 3 /\ last.dest = 9) => accepted

C6_Witness ==
  /\ last.stage = "edge"
  /\ last.origin = 4
  /\ last.dest = 10
  /\ last.action_dist = 6

\* C7: an action is applied only between two distinct cells that differ by
\* at most one row and at most one column.
C7_OnlyNeighboursAct ==
  Applied(last)
  => (/\ last.origin # last.dest
      /\ Abs(RowOf(last.dest) - RowOf(last.origin)) <= 1
      /\ Abs(ColOf(last.dest) - ColOf(last.origin)) <= 1)

C7_Witness ==
  /\ Applied(last)
  /\ last.action_dist = -6
  /\ RowOf(last.origin) = RowOf(last.dest) + 1
  /\ ColOf(last.origin) = ColOf(last.dest) + 1

CancelDistanceOf(c) == CASE c = 11 -> 1 [] c = 6 -> 5 [] c = 9 -> 4 [] c = 14 -> 6

CombineDistancesOf(c) == IF c \in {6, 11} THEN {1, 5} ELSE {4, 6}

\* C8: a two-directional arrow c dropped on c is a Cancel exactly at c's
\* cancel distance; dropped on its inverse it is a Combine exactly at its two
\* combine distances; anything else is no action, and it never merges.
C8_CompoundRule ==
  (last.stage = "classified" /\ last.src_content \in {6, 11, 9, 14})
  => LET c == last.src_content
         d == Abs(last.action_dist)
     IN  /\ last.action = Cancel
              <=> (last.dest_content = c /\ d = CancelDistanceOf(c))
         /\ last.action = Combine
              <=> (last.dest_content = InverseOf(c) /\ d \in CombineDistancesOf(c))
         /\ last.action \in {Cancel, Combine, NoAction}

C8_Witness ==
  /\ last.stage = "classified"
  /\ last.src_content = 14
  /\ last.dest_content = 14
  /\ last.action_dist = 6
  /\ last.action = Cancel

\* C9: with source 17, 23 or 40, 40 on 40 is a Cancel and 17 on 23 or 23 on
\* 17 is a Combine, each exactly when |distance| is 1, 4, 5 or 6; every
\* other pairing or distance is no action.
C9_MaximalRule ==
  (last.stage = "classified" /\ last.src_content \in {17, 23, 40})
  => LET near == Abs(last.action_dist) \in {1, 4, 5, 6}
         a == last.src_content
         b == last.dest_content
     IN  last.action = (IF near /\ a = 40 /\ b = 40 THEN Cancel
                        ELSE IF near /\ ((a = 17 /\ b = 23) \/ (a = 23 /\ b = 17)) THEN Combine
                        ELSE NoAction)

C9_Witness ==
  /\ last.stage = "classified"
  /\ last.src_content = 23
  /\ last.dest_content = 17
  /\ last.action = Combine
  /\ last.new_dest_content = 40

TierOf(v) == IF v \in {1, 5, 8, 3, 10, 4, 2, 7} THEN 2
             ELSE IF v \in {6, 11, 9, 14} THEN 4
             ELSE IF v = 40 THEN 9
             ELSE 6

\* C10: an applied Merge adds 2, a Combine 2^(u+1), a Cancel 2^u + 2, with
\* u = 2, 4, 9, 6 for a basic, compound, 40 and 17/23 source; every score
\* change of a move is one of 2, 6, 8, 18, 32, 128, 514, and no step lowers
\* the score.
C10_ScoreDelta ==
  [][ /\ score' >= score
      /\ (Handled /\ Applied(last'))
           => LET u == TierOf(last'.src_content)
              IN  /\ last'.action = Merge => score' - score = 2
                  /\ last'.action = Combine => score' - score = 2 ^ (u + 1)
                  /\ last'.action = Cancel => score' - score = 2 ^ u + 2
                  /\ score' - score \in {2, 6, 8, 18, 32, 128, 514}
      /\ (Handled /\ ~Applied(last')) => score' = score
      /\ ~Handled => score' = score ]_vars

C10_Witness ==
  /\ last.action = Cancel
  /\ last.src_content = 40
  /\ score = 614

\* C11: 40 dropped on 40 one cell to the left or right in the same row is a
\* Cancel that clears both cells; and a handleAction call adds exactly 1 to
\* spins_remaining when it applies a Cancel whose two values sum to 80, and
\* leaves spins_remaining alone in every other case.
C11_BonusSwap ==
  [][ /\ Handled
         => (/\ spins_remaining' \in {spins_remaining, spins_remaining + 1}
             /\ spins_remaining' = spins_remaining + 1
                  <=> (/\ Applied(last')
                       /\ last'.action = Cancel
                       /\ last'.src_content + last'.dest_content = 80)
             /\ (/\ last'.stage = "classified"
                 /\ last'.src_content = 40
                 /\ last'.dest_content = 40
                 /\ Abs(last'.action_dist) = 1)
                => (/\ last'.action = Cancel
                    /\ Vacated(cells', last'.origin)
                    /\ Vacated(cells', last'.dest)))
      /\ ~Handled => spins_remaining' = spins_remaining ]_vars

C11_Witness ==
  /\ Applied(last)
  /\ last.action = Cancel
  /\ last.src_content = 40
  /\ last.dest_content = 40
  /\ last.action_dist = -1
  /\ RowOf(last.origin) = RowOf(last.dest)
  /\ spins_remaining = 4

\* Cells s and d are 1 apart in different rows, or 4 or 6 apart in rows that
\* are not adjacent.
WrapsAround(s, d) ==
  \/ Abs(d - s) = 1 /\ RowOf(s) # RowOf(d)
  \/ Abs(d - s) \in {4, 6} /\ Abs(RowOf(s) - RowOf(d)) # 1

\* C12: a handleAction call whose drop point is outside the grid, whose two
\* cells wrap around a grid edge, or whose action is classified as none,
\* changes no cell, not the score, spins_remaining, arrows_placed, the next
\* arrows or animating_columns, and starts no gravity chain.
C12_NoOpMoves ==
  [][ (/\ Handled
       /\ \/ last'.stage \in {"outside", "edge"}
          \/ last'.stage = "classified" /\ last'.action = NoAction
          \/ WrapsAround(last'.origin, last'.dest))
      => UNCHANGED <<cells, score, spins_remaining, arrows_placed, next_arrow,
                     next_next_arrow, animating_columns, anims>> ]_vars

C12_Witness ==
  /\ last.stage = "classified"
  /\ last.action = NoAction
  /\ last.src_content \in arrows
  /\ last.dest_content \in arrows
  /\ last.action_dist = 5
  /\ cells[last.origin] = last.src_content
  /\ cells[last.dest] = last.dest_content
  /\ anims = {}

-----------------------------------------------------------------------------
(* SpecStale: one drag whose clone may be older than the board             *)

\* The statuses a clone can carry for a cell that now holds a: a itself, or,
\* when the drag began while an arrow was still falling towards the cell,
\* "0" or "animatingto".
CloneStatuses(a) == IF a = 0 THEN {0} ELSE {a, 0, AnimatingTo}

InitStale ==
  \E s \in CellIds, a \in arrows \cup {0}, b \in arrows \cup {0} :
    \E st \in CloneStatuses(a) :
     /\ cells = Board(s, a, b)
     /\ score = 0
     /\ spins_remaining = 3
     /\ arrows_placed = Cardinality(Occupied(Board(s, a, b)))
     /\ animating_columns = {}
     /\ anims = {}
     /\ drag = [origin |-> s, status |-> st, active |-> TRUE]
     /\ last = NoLocals
     /\ next_arrow = 1
     /\ next_next_arrow = 5
     /\ na_drag = FALSE
     /\ dropped = NoDrop
     /\ game_over = FALSE
     /\ gravity_call = NoCall
     /\ end_game = NoCheck
     /\ saved = NoSave
     /\ page = "live"

SpecStale == InitStale /\ [][NextMove]_vars

\* C13: when the source value or the destination value of a handleAction
\* call is no arrow id (0 for an empty cell, NaN for "animatingto"), the
\* classifier returns no action at every distance that reaches it (as it
\* does for that source and a destination that reads NaN), and the call
\* ends the drag and changes nothing else.
C13_IllegalValuesIgnored ==
  [][ (/\ Handled
       /\ last'.stage = "classified"
       /\ last'.src_content \notin arrows \/ last'.dest_content \notin arrows)
      => (/\ last'.action = NoAction
          /\ \A d \in {-6, -5, -4, -1, 1, 4, 5, 6} :
               classifyAction(last'.src_content, NaN, d) = NoAction
          /\ drag' = NoDrag
          /\ UNCHANGED <<cells, score, spins_remaining, arrows_placed, next_arrow,
                         next_next_arrow, animating_columns, anims, game_over>>) ]_vars

C13_Witness ==
  /\ last.stage = "classified"
  /\ last.src_content = NaN
  /\ last.dest_content \in arrows
  /\ cells[last.origin] = last.dest_content
  /\ Abs(last.action_dist) = 5
  /\ last.action = NoAction

-----------------------------------------------------------------------------
(* The next-arrow drag, insertNewArrow and the end-game check              *)

\* next_next_arrow before the first updateNextArrows call.
Null == 0

\* The ids getRandomArrow can return.
valid_numbers == {1, 2, 3, 4, 5, 7, 8, 10}

\* action_dists with the vertical distances alone.
action_dists_vertical == {-5, 5}

\* This list contains all actionable cell distances.
action_dists == {-6, -5, -4, -1, 1, 4, 5, 6}

getNeighbors(cell_id) == {cell_id + n : n \in action_dists}

canCombine(src, src_content, dest, dest_content, dist) ==
  /\ src >= 0 /\ dest >= 0 /\ src <= 24 /\ dest <= 24
  /\ resolveEdgeError(grid_indices(src), grid_indices(dest), dist)
  /\ classifyAction(src_content, dest_content, dist) # NoAction

\* endGameCheck on grid g: TRUE when the scan finds no pair (and endGameMenu runs).
endGameCheck(g) ==
  ~ \E i \in CellIds : \E n \in getNeighbors(i) :
       /\ 0 <= n /\ n < 25
       /\ canCombine(i, parseInt(g[i]), n, parseInt(g[n]), i - n)

\* insertNewArrow without the test of animating_columns.
insertNewArrow_no_lock(w, i, j, content) ==
  IF i < 0 \/ j < 0 \/ i > 4 \/ j > 4 THEN [ok |-> FALSE, w |-> w]
  ELSE IF w.cells[grid_id(i, j)] # 0 THEN [ok |-> FALSE, w |-> w]
  ELSE [ok |-> TRUE,
        w |-> applyGravitySteps([w EXCEPT !.cells[grid_id(i, j)] = content], i, j)]

\* insertNewArrow without the applyGravitySteps call.
insertNewArrow_no_gravity(w, i, j, content) ==
  IF j \in w.animating_columns THEN [ok |-> FALSE, w |-> w]
  ELSE IF i < 0 \/ j < 0 \/ i > 4 \/ j > 4 THEN [ok |-> FALSE, w |-> w]
  ELSE IF w.cells[grid_id(i, j)] # 0 THEN [ok |-> FALSE, w |-> w]
  ELSE [ok |-> TRUE, w |-> [w EXCEPT !.cells[grid_id(i, j)] = content]]

\* insertNewArrow without the test that the cell is empty.
insertNewArrow_no_empty_test(w, i, j, content) ==
  IF j \in w.animating_columns THEN [ok |-> FALSE, w |-> w]
  ELSE IF i < 0 \/ j < 0 \/ i > 4 \/ j > 4 THEN [ok |-> FALSE, w |-> w]
  ELSE [ok |-> TRUE,
        w |-> applyGravitySteps([w EXCEPT !.cells[grid_id(i, j)] = content], i, j)]

\* insertNewArrow(i, j, content) in world w: its result and the world it leaves.
insertNewArrow(w, i, j, content) ==
  IF j \in w.animating_columns THEN [ok |-> FALSE, w |-> w]
  ELSE IF i < 0 \/ j < 0 \/ i > 4 \/ j > 4 THEN [ok |-> FALSE, w |-> w]
  ELSE IF w.cells[grid_id(i, j)] # 0 THEN [ok |-> FALSE, w |-> w]
  ELSE [ok |-> TRUE,
        w |-> applyGravitySteps([w EXCEPT !.cells[grid_id(i, j)] = content], i, j)]

\* onmousedown / touchstart on the next arrow: cloneNextArrow.
NewArrowDrag ==
  /\ ~na_drag
  /\ na_drag' = TRUE
  /\ UNCHANGED <<cells, score, spins_remaining, arrows_placed, animating_columns, anims,
                 drag, last, next_arrow, next_next_arrow, dropped, game_over, gravity_call,
                 end_game, saved, page>>

\* na_clone.onmouseup / touchend at drop point p.
\* getRandomArrow() draws from pool.
DropNewArrowOf(p, pool) ==
  /\ na_drag
  /\ na_drag' = FALSE
  /\ UNCHANGED <<score, spins_remaining, drag, last, gravity_call, saved, page>>
  /\ IF p = Outside
     THEN /\ dropped' = NoDrop
          /\ UNCHANGED <<cells, arrows_placed, animating_columns, anims, next_arrow,
                         next_next_arrow, game_over, end_game>>
     ELSE
     LET cell_i == grid_indices(p)[1]
         cell_j == grid_indices(p)[2]
         r == insertNewArrow(World(cells, animating_columns, anims), cell_i, cell_j, next_arrow)
     IN  /\ dropped' = [i |-> cell_i, j |-> cell_j, content |-> next_arrow,
                        ok |-> r.ok, called |-> TRUE]
         /\ cells' = r.w.cells
         /\ animating_columns' = r.w.animating_columns
         /\ anims' = r.w.anims
         /\ IF r.ok
            THEN /\ \E rand1 \in pool, rand2 \in pool :
                      /\ next_arrow' = (IF next_next_arrow = Null THEN rand1 ELSE next_next_arrow)
                      /\ next_next_arrow' = rand2
                 /\ arrows_placed' = arrows_placed + 1
                 /\ IF arrows_placed + 1 = 25
                    THEN /\ end_game' = [called |-> TRUE, result |-> endGameCheck(r.w.cells)]
                         /\ game_over' = (game_over \/ endGameCheck(r.w.cells))
                    ELSE UNCHANGED <<game_over, end_game>>
            ELSE UNCHANGED <<next_arrow, next_next_arrow, arrows_placed, game_over, end_game>>

DropNewArrow(p) == DropNewArrowOf(p, valid_numbers)

-----------------------------------------------------------------------------
(* SpecLock: a grid drag or a next-arrow drag while a new arrow is falling *)

\* The settled board whose rows h..4 hold arrow v.
FloorBoard(h, v) == [c \in CellIds |-> IF c \div 5 >= h THEN v ELSE 0]

FloorArrows == {1, 8, 11, 40}

FloorRows == {2, 3, 4}

\* A new arrow c has just been inserted above the floor in column j0 and has
\* begun to fall; then the user has pressed a grid cell or the next arrow.
InitLock ==
  \E h \in FloorRows, v \in FloorArrows, j0 \in Rows, c \in {5, 8} :
    \E i0 \in 0..(h - 2), g \in CellIds \cup {Outside} :
      LET r == insertNewArrow(World(FloorBoard(h, v), {}, {}), i0, j0, c)
      IN  /\ cells = r.w.cells
          /\ animating_columns = r.w.animating_columns
          /\ anims = r.w.anims
          /\ score = 0
          /\ spins_remaining = 3
          /\ arrows_placed = Cardinality(Occupied(FloorBoard(h, v))) + 1
          /\ dropped = [i |-> i0, j |-> j0, content |-> c, ok |-> r.ok, called |-> TRUE]
          /\ next_arrow = 1
          /\ next_next_arrow = 5
          /\ game_over = FALSE
          /\ gravity_call = NoCall
          /\ end_game = NoCheck
          /\ saved = NoSave
          /\ page = "live"
          /\ last = NoLocals
          /\ IF g = Outside
             THEN drag = NoDrag /\ na_drag = TRUE
             ELSE /\ drag = [origin |-> g, status |-> r.w.cells[g], active |-> TRUE]
                  /\ na_drag = FALSE

DropNew == \E p \in DropPoints : DropNewArrow(p)

NextLock == Drop \/ DropNew \/ Fall

SpecLock == InitLock /\ [][NextLock]_vars

\* A step that ends a next-arrow drag with an insertNewArrow call.
Inserted == na_drag /\ ~na_drag' /\ dropped'.called

\* C14: a handleAction call whose source column or destination column is in
\* animating_columns changes no cell, not the score, spins_remaining or
\* arrows_placed, and starts no gravity chain; an insertNewArrow call on a
\* column in animating_columns returns false and changes nothing.
C14_LockedColumnRejects ==
  [][ /\ (/\ Handled
          /\ last'.dest # Outside
          /\ ColOf(last'.dest) \in animating_columns
               \/ ColOf(last'.origin) \in animating_columns)
         => (/\ last'.stage = "locked"
             /\ UNCHANGED <<cells, score, spins_remaining, arrows_placed,
                            animating_columns, anims>>)
      /\ (Inserted /\ dropped'.j \in animating_columns)
         => (/\ ~dropped'.ok
             /\ UNCHANGED <<cells, score, spins_remaining, arrows_placed, animating_columns,
                            anims, next_arrow, next_next_arrow, game_over>>) ]_vars

C14_Witness ==
  /\ last.stage = "locked"
  /\ ColOf(last.dest) \in animating_columns
  /\ ColOf(last.origin) \notin animating_columns
  /\ last.dest = last.origin + 1
  /\ cells[last.origin] = 8
  /\ cells[last.dest] = 8

-----------------------------------------------------------------------------
(* Properties of gravity                                                   *)

\* The chains in flight in column j.
ChainsIn(an, j) == {e \in an : e.j = j}

\* C15: in every reachable state each column has at most one
\* applyGravitySteps chain in flight.
C15_OneChainPerColumn ==
  \A j \in Rows : Cardinality(ChainsIn(anims, j)) <= 1

-----------------------------------------------------------------------------
(* SpecColumn: applyActionGravity on every arrangement of one column       *)

ColumnArrows == {1, 8}

\* The columns: a status for each of the rows 0..4.
Columns == [Rows -> ColumnArrows \cup {0}]

\* The board with column col in column j and nothing elsewhere.
ColumnBoard(j, col) == [c \in CellIds |-> IF c % 5 = j THEN col[c \div 5] ELSE 0]

InitColumn ==
  \E j \in Rows, col \in Columns :
     /\ cells = ColumnBoard(j, col)
     /\ score = 0
     /\ spins_remaining = 3
     /\ arrows_placed = Cardinality(Occupied(ColumnBoard(j, col)))
     /\ animating_columns = {}
     /\ anims = {}
     /\ drag = NoDrag
     /\ last = NoLocals
     /\ next_arrow = 1
     /\ next_next_arrow = 5
     /\ na_drag = FALSE
     /\ dropped = NoDrop
     /\ game_over = FALSE
     /\ gravity_call = NoCall
     /\ end_game = NoCheck
     /\ saved = NoSave
     /\ page = "live"

\* applyActionGravity(i, j), called once.
ActionGravityCall(i, j) ==
  /\ ~gravity_call.called
  /\ gravity_call' = [i |-> i, j |-> j, called |-> TRUE]
  /\ LET w == applyActionGravity(World(cells, animating_columns, anims), i, j)
     IN  /\ cells' = w.cells
         /\ animating_columns' = w.animating_columns
         /\ anims' = w.anims
  /\ UNCHANGED <<score, spins_remaining, arrows_placed, drag, last, next_arrow,
                 next_next_arrow, na_drag, dropped, game_over, end_game, saved, page>>

Settle == \E i \in -1..4, j \in Rows : ActionGravityCall(i, j)

NextColumn == Settle \/ Fall

SpecColumn == InitColumn /\ [][NextColumn]_vars

\* No arrow of column j of grid g has an empty cell directly beneath it.
Settled(g, j) ==
  \A r \in 0..3 : g[grid_id(r, j)] \in arrows => g[grid_id(r + 1, j)] # 0

\* The applyActionGravity call has been made and every chain has finished.
GravityDone == gravity_call.called /\ anims = {}

\* C16: whatever the arrangement of the column, once applyActionGravity has
\* been applied to it and all its gravity steps have completed, no arrow of
\* the column has an empty cell directly beneath it.
C16_SettlingCompleteness ==
  GravityDone => Settled(cells, gravity_call.j)

\* A step that is the applyActionGravity call.
GravityCalled == ~gravity_call.called /\ gravity_call'.called

\* C17: applyActionGravity called on a column in which no arrow has an empty
\* cell beneath it starts no chain, changes no cell and leaves
\* animating_columns alone; so does applyGravitySteps on each of its arrows.
C17_SettlingIdempotence ==
  [][ (GravityCalled /\ Settled(cells, gravity_call'.j))
      => (/\ UNCHANGED <<cells, animating_columns, anims>>
          /\ \A i \in Rows :
               cells[grid_id(i, gravity_call'.j)] \in arrows
               => applyGravitySteps(World(cells, animating_columns, anims), i, gravity_call'.j)
                    = World(cells, animating_columns, anims)) ]_vars

C17_Witness ==
  /\ gravity_call.called
  /\ gravity_call.i = 3
  /\ \A r \in Rows : cells[grid_id(r, gravity_call.j)] \in arrows
  /\ anims = {}
  /\ animating_columns = {}

-----------------------------------------------------------------------------
(* SpecDropNew: one new arrow dropped on a board with one stack            *)

\* The board with a stack of h arrows v at the bottom of column j.
StackBoard(j, h, v) ==
  [c \in CellIds |-> IF c % 5 = j /\ c \div 5 >= grid_size - h THEN v ELSE 0]

InitDropNew ==
  \E j \in Rows, h \in 0..grid_size, na \in {5, 8} :
     /\ cells = StackBoard(j, h, 1)
     /\ score = 0
     /\ spins_remaining = 3
     /\ arrows_placed = h
     /\ animating_columns = {}
     /\ anims = {}
     /\ drag = NoDrag
     /\ last = NoLocals
     /\ next_arrow = na
     /\ next_next_arrow = 1
     /\ na_drag = TRUE
     /\ dropped = NoDrop
     /\ game_over = FALSE
     /\ gravity_call = NoCall
     /\ end_game = NoCheck
     /\ saved = NoSave
     /\ page = "live"

NextDropNew == DropNew \/ Fall

SpecDropNew == InitDropNew /\ [][NextDropNew]_vars

\* The rows of column j from row i down that are empty in grid g.
EmptyBelow(g, i, j) == {r \in i..4 : g[grid_id(r, j)] = 0}

\* Arrow v rests in row r of column j, on an arrow or on the bottom, with
\* nothing left above it.
RestsIn(g, j, r, v) ==
  /\ g[grid_id(r, j)] = v
  /\ \A q \in Rows : q < r => g[grid_id(q, j)] = 0
  /\ \A q \in Rows : q > r => g[grid_id(q, j)] \in arrows

\* C18: an arrow inserted into an empty cell (i, j) of an idle column takes
\* no step when nothing beneath it is empty; otherwise its chain moves it
\* one row per gravity step, for at most 4 steps, and lands it after k steps
\* in row i + k, which is the lowest empty cell of the column from row i
\* down.  With an arrow in cell 20 alone, a drop at cell 0 lands in cell 15
\* after 3 steps.
C18_DropLandsOnLowestEmpty ==
  [][ /\ (Inserted /\ dropped'.ok /\ EmptyBelow(cells, dropped'.i + 1, dropped'.j) = {})
         => (/\ anims' = anims
             /\ animating_columns' = animating_columns
             /\ cells' = [cells EXCEPT ![grid_id(dropped'.i, dropped'.j)] = dropped'.content])
      /\ (Inserted /\ dropped'.ok /\ EmptyBelow(cells, dropped'.i + 1, dropped'.j) # {})
         => anims' = {[i |-> dropped'.i, j |-> dropped'.j, content |-> dropped'.content,
                       cell_index |-> <<dropped'.i, dropped'.j>>, k |-> 1]}
      /\ \A e \in anims' :
           /\ e.k \in 1..4
           /\ e.cell_index = <<e.i + e.k - 1, e.j>>
           /\ cells'[grid_id(e.i + e.k, e.j)] = AnimatingTo
      /\ \A e \in anims \ anims' :
           \/ [e EXCEPT !.k = @ + 1, !.cell_index = <<e.i + e.k, e.j>>] \in anims'
           \/ /\ anims' = {}
              /\ RestsIn(cells', e.j, e.i + e.k, e.content)
              /\ EmptyBelow(cells', e.i + e.k, e.j) = {}
              /\ (e.i = 0 /\ e.j = 0 /\ cells[20] = 1 /\ cells[15] = AnimatingTo)
                 => (e.k = 3 /\ cells'[15] = e.content) ]_vars

C18_Witness ==
  /\ dropped.ok
  /\ dropped.i = 0
  /\ dropped.j = 0
  /\ anims = {}
  /\ cells[15] = dropped.content
  /\ cells[20] = 1
  /\ cells[0] = 0 /\ cells[5] = 0 /\ cells[10] = 0

-----------------------------------------------------------------------------
(* SpecEnd: endGameCheck on a family of full boards                        *)

EndFillers == {17, 40}

\* A corner cell of the right edge and the centre cell.
EndCells == {4, 12}

\* The full board of arrow f with a in cell s and b in cell p.
PairBoard(f, s, a, p, b) ==
  [c \in CellIds |-> IF c = p THEN b ELSE IF c = s THEN a ELSE f]

InitEnd ==
  \E f \in EndFillers, s \in EndCells, a \in arrows :
    \E p \in (IF f = 17 THEN CellIds ELSE {s}), b \in (IF f = 17 THEN arrows ELSE {a}) :
     /\ cells = PairBoard(f, s, a, p, b)
     /\ score = 0
     /\ spins_remaining = 3
     /\ arrows_placed = 25
     /\ animating_columns = {}
     /\ anims = {}
     /\ drag = NoDrag
     /\ last = NoLocals
     /\ next_arrow = 1
     /\ next_next_arrow = 5
     /\ na_drag = FALSE
     /\ dropped = NoDrop
     /\ game_over = FALSE
     /\ gravity_call = NoCall
     /\ end_game = NoCheck
     /\ saved = NoSave
     /\ page = "live"

\* endGameCheck(), as the drop listeners and initializeGame call it once
\* arrows_placed is 25.
EndGameCheckCall ==
  /\ ~end_game.called
  /\ arrows_placed = 25
  /\ LET result == endGameCheck(cells)
     IN  /\ end_game' = [called |-> TRUE, result |-> result]
         /\ game_over' = (game_over \/ result)
  /\ UNCHANGED <<cells, score, spins_remaining, arrows_placed, animating_columns, anims,
                 drag, last, next_arrow, next_next_arrow, na_drag, dropped, gravity_call,
                 saved, page>>

SpecEnd == InitEnd /\ [][EndGameCheckCall]_vars

\* handleAction would apply an action for source cell s and destination d.
Accepted(g, s, d) ==
  /\ d \in CellIds
  /\ d - s \in {-6, -5, -4, -1, 1, 4, 5, 6}
  /\ resolveEdgeError(grid_indices(s), grid_indices(d), d - s)
  /\ classifyAction(parseInt(g[s]), parseInt(g[d]), d - s) \in {Merge, Combine, Cancel}

\* C19: endGameCheck returns true, and endGameMenu runs, exactly when no
\* ordered pair of cells (s, d) at a distance d - s in {-6,-5,-4,-1,1,4,5,6}
\* passes resolveEdgeError and classifies as Merge, Combine or Cancel at
\* distance d - s.
C19_ScanAgreesWithHandleAction ==
  end_game.called
  => (/\ end_game.result
           <=> ~ \E s \in CellIds, n \in {-6, -5, -4, -1, 1, 4, 5, 6} : Accepted(cells, s, s + n)
      /\ game_over <=> end_game.result)

C19_Witness ==
  /\ end_game.called
  /\ ~end_game.result
  /\ ~game_over
  /\ cells[7] = 5
  /\ cells[12] = 1
  /\ \A c \in CellIds \ {7, 12} : cells[c] = 17

\* Every cell of grid g holds arrow v.
AllHold(g, v) == \A c \in CellIds : g[c] = v

\* Grid g is the board of 17s but for cells s and d, which hold a pair that
\* handleAction would accept.
PairIntroduced(g, s, d) ==
  /\ Accepted(g, s, d)
  /\ \A c \in CellIds \ {s, d} : g[c] = 17

\* C20 as stated: on the board whose 25 cells all hold 40, endGameCheck finds
\* no legal action and reports a terminal board.
C20_AsStated ==
  (end_game.called /\ AllHold(cells, 40)) => end_game.result

\* C20: on the board whose 25 cells all hold 40, endGameCheck finds a legal
\* action and returns false; on the board whose 25 cells all hold 17 it
\* finds none and reports a terminal board; and on a board of 17s with one
\* legal pair in any two cells it finds a move.
C20_ScanOnUniformBoards ==
  end_game.called
  => (/\ AllHold(cells, 40) => (~end_game.result /\ ~game_over)
      /\ AllHold(cells, 17) => (end_game.result /\ game_over)
      /\ (\E s \in EndCells, n \in {-6, -5, -4, -1, 1, 4, 5, 6} :
            \/ PairIntroduced(cells, s, s + n)
            \/ s + n \in CellIds /\ PairIntroduced(cells, s + n, s))
         => (~end_game.result /\ ~game_over))

C20_Witness ==
  /\ end_game.called
  /\ AllHold(cells, 40)
  /\ ~end_game.result
  /\ ~game_over

-----------------------------------------------------------------------------
(* Properties of the gravity a move starts                                 *)

\* The call recorded in l applied a Cancel to two cells of one column.
DoubleClear(l) ==
  /\ Applied(l)
  /\ l.action = Cancel
  /\ Abs(l.action_dist) = 5

\* The row of the upper of the two cells of the call recorded in l.
UpperRow(l) == IF l.action_dist = 5 THEN RowOf(l.origin) ELSE RowOf(l.dest)

UpDownPair(l) ==
  \/ l.src_content = 1 /\ l.dest_content = 5
  \/ l.src_content = 5 /\ l.dest_content = 1

\* Column j of grid g holds nothing in rows 0 and 1 and arrow v below them.
FellTwoRows(g, j, v) ==
  \A r \in Rows : g[grid_id(r, j)] = (IF r < 2 THEN 0 ELSE v)

\* A step after which every arrow that stood above the two cells of the call
\* has exactly one gravity chain, and no other cell of the column has any.
OneChainEach ==
  \A r \in Rows :
     Cardinality({e \in anims' : e.j = ColOf(last'.origin) /\ e.i = r})
       = (IF r < UpperRow(last') /\ cells[grid_id(r, ColOf(last'.origin))] \in arrows
          THEN 1 ELSE 0)

\* Every cell outside column j holds an arrow.
FullElsewhere(g, j) == \A c \in CellIds : ColOf(c) # j => g[c] \in arrows

\* C21: a Cancel of the up/down pair at distance 5 or -5 starts exactly one
\* gravity chain for each arrow above the two cleared cells, and when the
\* chains have finished each of those arrows is two rows lower and no arrow
\* of the column has an empty cell beneath it.
C21_UpDownDoubleClear ==
  [][ /\ (Handled /\ DoubleClear(last') /\ UpDownPair(last'))
         => OneChainEach
      /\ (DoubleClear(last') /\ UpDownPair(last') /\ anims' = {})
         => /\ Settled(cells', ColOf(last'.origin))
            /\ FullElsewhere(cells', ColOf(last'.origin))
                 => FellTwoRows(cells', ColOf(last'.origin), last'.dest_content) ]_vars


\* The equal pairs that cancel each other and have no branch of their own.
EqualPair(l) == l.src_content = l.dest_content /\ l.src_content \in {6, 40}

\* C29: a Cancel of 6 on 6 or of 40 on 40 at distance 5 or -5 empties two
\* cells of one column, and when the gravity it starts has finished every
\* arrow above the two cells is two rows lower and no arrow of the column
\* has an empty cell beneath it.
C29_EqualPairDoubleClear ==
  [][ /\ (Handled /\ DoubleClear(last') /\ EqualPair(last')) => OneChainEach
      /\ (DoubleClear(last') /\ EqualPair(last') /\ anims' = {})
         => /\ Settled(cells', ColOf(last'.origin))
            /\ FullElsewhere(cells', ColOf(last'.origin))
                 => FellTwoRows(cells', ColOf(last'.origin), last'.dest_content) ]_vars


-----------------------------------------------------------------------------
(* Saving, restoring and resetting the game                                *)

\* The decimal digits localStorage.setItem stores for a number n >= 0.
RECURSIVE toString(_)
toString(n) == IF n < 10 THEN <<n>> ELSE Append(toString(n \div 10), n % 10)

\* parseInt of a stored string of digits; NaN for the empty string.
RECURSIVE parseDigits(_)
parseDigits(text) ==
  IF text = <<>> THEN NaN
  ELSE IF Len(text) = 1 THEN text[1]
  ELSE 10 * parseDigits(SubSeq(text, 1, Len(text) - 1)) + text[Len(text)]

\* The string setItem stores for a next arrow: "null" for null.
String(v) == IF v = Null THEN NullText ELSE v

\* saveGame(): the keys it writes, from the statuses of the cells and the globals.
saveGame(g, na, nna, spins, sc) ==
  [did_save_content |-> TRUE, cells |-> g, next_arrow |-> String(na),
   next_next_arrow |-> String(nna), spins |-> toString(spins), score |-> toString(sc)]

\* The status initializeGame writes for a stored cell status.
RestoredStatus(saved_status) ==
  IF parseInt(saved_status) \in arrows THEN saved_status ELSE 0

\* The statuses of a page whose script has not written any cell yet.
FreshGrid == [c \in CellIds |-> 0]

\* The grid after k rounds of the loop of initializeGame.
RestoredGrid(st, k) ==
  [c \in CellIds |-> IF c < k THEN RestoredStatus(st.cells[c]) ELSE FreshGrid[c]]

\* clearGrid(): updateGridCell(i, j, '0') on every cell.
RECURSIVE clearGrid(_, _)
clearGrid(w, n) ==
  IF n = 25 THEN w
  ELSE clearGrid(updateGridCell(w, grid_indices(n)[1], grid_indices(n)[2], 0), n + 1)

\* window 'pagehide': saveGame(); the page takes no further input.
Pagehide ==
  /\ page = "live"
  /\ page' = "hidden"
  /\ saved' = saveGame(cells, next_arrow, next_next_arrow, spins_remaining, score)
  /\ UNCHANGED <<cells, score, spins_remaining, arrows_placed, animating_columns, anims,
                 drag, last, next_arrow, next_next_arrow, na_drag, dropped, game_over,
                 gravity_call, end_game>>

\* What the status of a cell of the loaded page reads as before the script
\* has written it: "0", or no status at all (parseInt then gives NaN).
UnwrittenStatuses == {0, NullText}

\* The page is loaded: the globals take their declared values and the script
\* calls initializeGame().
InitializeGame ==
  /\ page \in {"loading", "hidden"}
  /\ page' = "live"
  /\ animating_columns' = {}
  /\ anims' = {}
  /\ drag' = NoDrag
  /\ na_drag' = FALSE
  /\ last' = NoLocals
  /\ dropped' = NoDrop
  /\ gravity_call' = NoCall
  /\ UNCHANGED saved
  /\ IF saved.did_save_content
     THEN LET saved_spins == parseDigits(saved.spins)
              saved_score == parseDigits(saved.score)
              grid == RestoredGrid(saved, 25)
              placed == Cardinality({c \in CellIds : grid[c] # 0})
          IN  /\ spins_remaining' = (IF saved_spins = NaN THEN 3 ELSE saved_spins)
              /\ score' = (IF saved_score = NaN THEN 0 ELSE saved_score)
              /\ next_arrow' = saved.next_arrow
              /\ next_next_arrow' = saved.next_next_arrow
              /\ cells' = grid
              /\ arrows_placed' = placed
              /\ IF placed = 25
                 THEN \E unwritten \in UnwrittenStatuses :
                        LET result == endGameCheck([RestoredGrid(saved, 24)
                                                      EXCEPT ![24] = unwritten])
                        IN  /\ end_game' = [called |-> TRUE, result |-> result]
                            /\ game_over' = result
                 ELSE /\ end_game' = NoCheck
                      /\ game_over' = FALSE
     ELSE \E rand1, rand2 \in valid_numbers :
              /\ next_arrow' = rand1
              /\ next_next_arrow' = rand2
              /\ spins_remaining' = 3
              /\ score' = 0
              /\ arrows_placed' = 0
              /\ cells' = clearGrid(World(FreshGrid, {}, {}), 0).cells
              /\ end_game' = NoCheck
              /\ game_over' = FALSE

\* resetGame(): clearSavedGame(), then loadNewGame() in the running page.
ResetGame ==
  /\ page = "live"
  /\ saved' = NoSave
  /\ spins_remaining' = 3
  /\ score' = 0
  /\ arrows_placed' = 0
  /\ cells' = clearGrid(World(cells, animating_columns, anims), 0).cells
  /\ IF next_next_arrow = Null
     THEN \E rand1 \in valid_numbers : next_arrow' = rand1
     ELSE next_arrow' = next_next_arrow
  /\ \E rand2 \in valid_numbers : next_next_arrow' = rand2
  /\ UNCHANGED <<animating_columns, anims, drag, last, na_drag, dropped, game_over,
                 gravity_call, end_game, page>>


-----------------------------------------------------------------------------
(* SpecRestore: a page load from a stored game, then one arrow dropped     *)

\* What localStorage may hold for a cell and for a next arrow.
StoredStatuses == {0, 5, AnimatingTo, NullText, Foreign, Padded(5)}

StoredArrows == {5, 8, NullText, Foreign}

StoredCells == {0, 12, 22}

StoredNumbers == {0, 3, 12}

\* The stored grid whose rows h..4 hold arrow v, but for status x in cell c.
StoredBoard(h, v, c, x) == [FloorBoard(h, v) EXCEPT ![c] = x]

\* The page before its script has run initializeGame (lines 52-57).
Loading(st) ==
  /\ saved = st
  /\ page = "loading"
  /\ cells = FreshGrid
  /\ score = 0
  /\ spins_remaining = 3
  /\ arrows_placed = 0
  /\ animating_columns = {}
  /\ anims = {}
  /\ drag = NoDrag
  /\ last = NoLocals
  /\ next_arrow = Null
  /\ next_next_arrow = Null
  /\ na_drag = FALSE
  /\ dropped = NoDrop
  /\ game_over = FALSE
  /\ gravity_call = NoCall
  /\ end_game = NoCheck

InitRestore ==
  \/ Loading(NoSave)
  \/ \E c \in StoredCells, x \in StoredStatuses, na \in StoredArrows,
        nna \in StoredArrows, n \in StoredNumbers :
       Loading([did_save_content |-> TRUE, cells |-> StoredBoard(4, 8, c, x),
                next_arrow |-> na, next_next_arrow |-> nna,
                spins |-> toString(n), score |-> toString(n)])

\* The first press on the next arrow after the load.
FirstArrowDrag == page = "live" /\ ~dropped.called /\ NewArrowDrag

NextRestore == InitializeGame \/ FirstArrowDrag \/ DropNew \/ Fall

SpecRestore == InitRestore /\ [][NextRestore]_vars

\* C22: once initializeGame has run, and after any drop that follows, every
\* cell holds 0 or one of the 15 arrow values (or the mark of a cell an
\* arrow is falling into), whatever localStorage held.
C22_RestoredBoardIsLegal ==
  page = "live" => \A c \in CellIds : cells[c] \in arrows \cup {0, AnimatingTo}


-----------------------------------------------------------------------------
(* SpecSave: the page is hidden and loaded again while an arrow is falling *)

\* The states of InitLock above a floor of 8s.
InitSave == InitLock /\ cells[grid_id(4, 0)] = 8

\* The listeners and callbacks of a page run while the page is shown.
LiveDrop == page = "live" /\ Drop

LiveDropNew == page = "live" /\ DropNew

LiveFall == page = "live" /\ Fall

NextSave == LiveDrop \/ LiveDropNew \/ LiveFall \/ Pagehide \/ InitializeGame

SpecSave == InitSave /\ [][NextSave]_vars

\* A step that loads the page the game was saved from.
Restored == page = "hidden" /\ page' = "live"

\* C23: initializeGame after saveGame gives back the 25 cell statuses, the
\* two next arrows, spins_remaining and the score of the state that was saved.
C23_SaveRestoreRoundTrip ==
  [][ Restored => /\ cells' = cells
                  /\ next_arrow' = next_arrow
                  /\ next_next_arrow' = next_next_arrow
                  /\ spins_remaining' = spins_remaining
                  /\ score' = score ]_vars


-----------------------------------------------------------------------------
(* SpecReset: the game is reset while an arrow is falling                  *)

\* The states of InitSave in which the falling arrow is a 5 in column 0 and
\* the cell pressed, if one is, is in column 0.
InitReset ==
  /\ InitSave
  /\ dropped.j = 0
  /\ dropped.content = 5
  /\ drag.active => ColOf(drag.origin) = 0

\* The player resets a game in which something has been played.
Reset == (arrows_placed # 0 \/ score # 0 \/ spins_remaining # 3) /\ ResetGame

NextReset == Drop \/ DropNew \/ Fall \/ Reset

SpecReset == InitReset /\ [][NextReset]_vars

\* C25: after resetGame every one of the 25 cells is empty, the score is 0,
\* spins_remaining is 3 and arrows_placed is 0, in whatever state it is called.
C25_ResetClearsEverything ==
  [][ ResetGame => /\ \A c \in CellIds : cells'[c] = 0
                   /\ score' = 0
                   /\ spins_remaining' = 3
                   /\ arrows_placed' = 0 ]_vars


-----------------------------------------------------------------------------
(* SpecGame: a new game played in column 0                                 *)

\* The arrows getRandomArrow draws, the cells the pointer visits, and the
\* bounds on the arrows on the grid and on the score at the start of a drag.
GameArrows == {1, 5}

GameCells == {0, 5, 10, 15, 20}

GamePoints == GameCells \cup {Outside}

MaxArrows == 2

MaxScore == 2

\* swapNextArrows without the test of spins_remaining.
SwapNextArrows_no_zero_test ==
  /\ spins_remaining' = spins_remaining - 1
  /\ next_arrow' = next_next_arrow
  /\ next_next_arrow' = next_arrow
  /\ UNCHANGED <<cells, score, arrows_placed, animating_columns, anims, drag, last, na_drag,
                 dropped, game_over, gravity_call, end_game, saved, page>>

\* swapNextArrows(): the swap button.
SwapNextArrows ==
  /\ IF spins_remaining = 0
     THEN UNCHANGED <<spins_remaining, next_arrow, next_next_arrow>>
     ELSE /\ spins_remaining' = spins_remaining - 1
          /\ next_arrow' = next_next_arrow
          /\ next_next_arrow' = next_arrow
  /\ UNCHANGED <<cells, score, arrows_placed, animating_columns, anims, drag, last, na_drag,
                 dropped, game_over, gravity_call, end_game, saved, page>>

\* The state loadNewGame leaves when the page is loaded without a saved game.
InitGame ==
  \E rand1 \in GameArrows, rand2 \in GameArrows :
     /\ cells = clearGrid(World(FreshGrid, {}, {}), 0).cells
     /\ score = 0
     /\ spins_remaining = 3
     /\ arrows_placed = 0
     /\ animating_columns = {}
     /\ anims = {}
     /\ drag = NoDrag
     /\ last = NoLocals
     /\ next_arrow = rand1
     /\ next_next_arrow = rand2
     /\ na_drag = FALSE
     /\ dropped = NoDrop
     /\ game_over = FALSE
     /\ gravity_call = NoCall
     /\ end_game = NoCheck
     /\ saved = NoSave
     /\ page = "live"

\* One pointer: a drag starts when no other is in progress. The next arrow
\* is released on the top cell of the column or outside the grid.
ArrowPress == arrows_placed < MaxArrows /\ ~drag.active /\ NewArrowDrag

ArrowRelease == \E p \in {0, Outside} : DropNewArrowOf(p, GameArrows)

\* The player presses an arrow and releases it on the cell above or below
\* it, or outside the grid.
GridPress ==
  /\ score < MaxScore
  /\ ~na_drag
  /\ \E n \in GameCells : cells[n] \in arrows /\ GridDrag(n)

GridRelease ==
  \E p \in GamePoints : (p = Outside \/ Abs(p - drag.origin) = 5) /\ HandleAction(p)

Swap == ~drag.active /\ ~na_drag /\ spins_remaining > 0 /\ SwapNextArrows

NextGame == ArrowPress \/ ArrowRelease \/ GridPress \/ GridRelease \/ Swap \/ Fall

SpecGame == InitGame /\ [][NextGame]_vars


\* C24: in every state of a game played from a new game by drops, swaps,
\* moves and gravity steps, each cell holds 0, one of the 15 arrow values, or
\* the mark of a cell an arrow is falling into.
C24_CellsHoldLegalValues ==
  \A c \in CellIds : cells[c] \in arrows \cup {0, AnimatingTo}

\* A Combine has put an arrow that getRandomArrow never draws on the grid,
\* after a swap of the next arrows, and gravity has finished.
C24_Witness ==
  /\ \E c \in CellIds : cells[c] \in arrows \ valid_numbers
  /\ spins_remaining < 3
  /\ Applied(last) /\ last.action = Combine
  /\ dropped.ok
  /\ anims = {}


-----------------------------------------------------------------------------
(* Properties of the gravity chains of a column                            *)

\* C26: whenever a cell of column j is marked as the target of a falling
\* arrow, j is in animating_columns.
C26_LockCoversEveryChain ==
  \A c \in CellIds : cells[c] = AnimatingTo => ColOf(c) \in animating_columns


\* C27: when no gravity chain is in flight, no arrow of any column has an
\* empty cell beneath it.
C27_SettledWhenQuiet ==
  anims = {} => \A j \in Rows : Settled(cells, j)


\* The arrows of value v in column j: those in its cells and those falling.
Count(g, an, j, v) ==
  Cardinality({r \in Rows : g[grid_id(r, j)] = v})
    + Cardinality({e \in an : e.j = j /\ e.content = v})

\* C28: from the applyActionGravity call until its last chain has finished,
\* in whatever order the callbacks of the chains run, no step loses,
\* duplicates or changes an arrow of a column, and the grid ends with as
\* many arrows as it began with.
C28_GravityConservesArrows ==
  [][ /\ \A j \in Rows : \A v \in ColumnArrows :
           Count(cells', anims', j, v) = Count(cells, anims, j, v)
      /\ GravityDone'
           => Cardinality({c \in CellIds : cells'[c] \in arrows}) = arrows_placed' ]_vars


-----------------------------------------------------------------------------
(* SpecColumnFair: every animation of a started chain finishes             *)

\* An animation that was played finishes after its duration, and the callback
\* registered on anim.finished then runs: a chain in flight is not left waiting
\* for ever.
SpecColumnFair == SpecColumn /\ WF_vars(Fall)

\* Nothing is falling: no chain in flight, no column locked, no cell marked.
Quiet ==
  /\ anims = {}
  /\ animating_columns = {}
  /\ \A c \in CellIds : cells[c] # AnimatingTo

\* The chain that started at row i of column j is in flight in the set an.
InFlight(an, i, j) == \E anim_env \in an : anim_env.i = i /\ anim_env.j = j

\* The callback of anim_env is the one that ends its chain.
LastStep(anim_env) ==
  /\ GravityStep(anim_env)
  /\ ~(anim_env.k < 4 /\ can_be_dropped_to(cells, anim_env.i + anim_env.k + 1, anim_env.j))

\* C30: a chain that has started plays at most 4 single-row animations, leaves
\* only through the callback of its own last animation (it is never cancelled),
\* and once chains are in flight the grid eventually comes to rest for good,
\* with no chain in flight, animating_columns empty and no cell marked
\* "animatingto".
C30_GravityTerminates ==
  /\ [](\A anim_env \in anims : anim_env.k \in 1..4)
  /\ [][\A anim_env \in anims :
          ~InFlight(anims', anim_env.i, anim_env.j) => LastStep(anim_env)]_vars
  /\ (anims # {}) ~> [](Quiet)

\* A chain is playing its fourth animation: its arrow started in the top row
\* of an otherwise empty column.
C30_Witness ==
  \E anim_env \in anims :
     /\ anim_env.k = 4
     /\ anim_env.i = 0
     /\ cells[grid_id(4, anim_env.j)] = AnimatingTo


-----------------------------------------------------------------------------
(* Properties of the taxonomy                                              *)

\* The value a Combine of v with its partner is to give.
CombinedValue(v) ==
  CASE v \in {1, 5} -> 6
    [] v \in {8, 3} -> 11
    [] v \in {2, 7} -> 9
    [] v \in {10, 4} -> 14
    [] v \in {6, 11} -> 17
    [] v \in {9, 14} -> 23
    [] v \in {17, 23} -> 40

\* C37: every Combine that handleAction applies writes to the destination the
\* plain sum of the two values, which is a legal arrow of the next higher tier
\* and never 0: inverse basic arrows give 6, 11, 9 or 14, inverse compound
\* arrows give 17 or 23, and 17 with 23 gives 40; the reduction mod 80 leaves
\* the sum as it is.
C37_CombineGivesNextTier ==
  [][ (Handled /\ Applied(last') /\ last'.action = Combine)
      => /\ last'.src_content \in basic_arr \cup mid_arr \cup {17, 23}
         /\ last'.src_content \in basic_arr \cup mid_arr
              => last'.dest_content = InverseOf(last'.src_content)
         /\ last'.src_content \in {17, 23} => last'.dest_content = 40 - last'.src_content
         /\ last'.new_dest_content = last'.src_content + last'.dest_content
         /\ last'.new_dest_content = CombinedValue(last'.src_content)
         /\ last'.new_dest_content \in arrows
         /\ last'.src_content \in basic_arr => last'.new_dest_content \in mid_arr
         /\ last'.src_content \in mid_arr => last'.new_dest_content \in {17, 23}
         /\ Holds(cells', anims', last'.dest, last'.origin, last'.new_dest_content) ]_vars

\* 17 dropped on 23 has left 40 in the destination.
C37_Witness ==
  /\ Applied(last)
  /\ last.action = Combine
  /\ last.src_content = 17
  /\ last.dest_content = 23
  /\ anims = {}
  /\ cells[last.dest] = 40

\* The lists that hold value v.
TiersOf(v) == {t \in {basic_arr, mid_arr, max_arr} : v \in t}

\* C38: every legal non-zero value is in exactly one of the basic, compound
\* and maximal lists; the inverse that action_triples gives a basic or compound
\* value v is in the tier of v and has v as its own inverse; the natural
\* distance of the inverse of a basic v is the negation of that of v; and a
\* basic or compound arrow is combined only with that inverse.
C38_TaxonomyIsAPartition ==
  /\ \A v \in arrows : Cardinality(TiersOf(v)) = 1
  /\ basic_arr \cup mid_arr \cup max_arr = arrows
  /\ \A v \in basic_arr \cup mid_arr :
        /\ action_triples[v][2] \in basic_arr \cup mid_arr
        /\ TiersOf(action_triples[v][2]) = TiersOf(v)
        /\ action_triples[action_triples[v][2]][2] = v
  /\ \A v \in basic_arr :
        action_triples[action_triples[v][2]][1] = -action_triples[v][1]
  /\ (Applied(last) /\ last.action = Combine /\ last.src_content \in basic_arr \cup mid_arr)
       => /\ last.dest_content = action_triples[last.src_content][2]
          /\ TiersOf(last.dest_content) = TiersOf(last.src_content)

\* A compound arrow has been combined with its inverse, a value of its own tier.
C38_Witness ==
  /\ Applied(last)
  /\ last.action = Combine
  /\ last.src_content = 9
  /\ last.dest_content = 14
  /\ action_triples[14][2] = 9


-----------------------------------------------------------------------------
(* SpecSwap: the swap button in a game restored with 0, 1 or 3 spins       *)

SwapSpins == {0, 1, 3}

SwapArrows == {5, 8}

\* The cells of the bottom row the player drags between.
SwapCells == {20, 21, 22}

\* The page is loaded without a saved game, or with a saved row of 40s.
InitSwap ==
  \/ Loading(NoSave)
  \/ \E na \in SwapArrows, nna \in SwapArrows, n \in SwapSpins :
       Loading([did_save_content |-> TRUE, cells |-> FloorBoard(4, 40),
                next_arrow |-> na, next_next_arrow |-> nna,
                spins |-> toString(n), score |-> toString(0)])

\* The swap button is pressed, whatever spins_remaining is.
SwapPressed == page = "live" /\ ~drag.active /\ ~na_drag /\ SwapNextArrows

\* The player presses an arrow of the bottom row and releases it on a cell of
\* that row or outside the grid.
RowPress ==
  /\ page = "live"
  /\ ~na_drag
  /\ \E n \in SwapCells : cells[n] \in arrows /\ GridDrag(n)

RowRelease == \E p \in SwapCells \cup {Outside} : HandleAction(p)

\* The next arrow is released on the top of column 0 or outside the grid.
FirstArrowRelease == \E p \in {0, Outside} : DropNewArrowOf(p, SwapArrows)

NextSwap ==
  InitializeGame \/ SwapPressed \/ RowPress \/ RowRelease \/ FirstArrowDrag
    \/ FirstArrowRelease \/ Fall

SpecSwap == InitSwap /\ [][NextSwap]_vars

\* C40: spins_remaining is never negative; a swapNextArrows call with
\* spins_remaining = 0 changes nothing, and any other call takes exactly 1 from
\* spins_remaining and exchanges next_arrow with next_next_arrow, so that a
\* second swap would bring the two next arrows back.
C40_SpinsNeverNegative ==
  [][ /\ spins_remaining' \in Nat
      /\ (SwapPressed /\ spins_remaining = 0) => UNCHANGED vars
      /\ (page = "live" /\ spins_remaining' < spins_remaining)
           => /\ spins_remaining' = spins_remaining - 1
              /\ next_arrow' = next_next_arrow
              /\ next_next_arrow' = next_arrow
              /\ cells' = cells
              /\ score' = score
              /\ arrows_placed' = arrows_placed ]_vars

\* The last spin of a restored game has been used to exchange 5 and 8.
C40_Witness ==
  /\ page = "live"
  /\ saved.spins = toString(1)
  /\ spins_remaining = 0
  /\ ~dropped.called
  /\ saved.next_arrow = 5
  /\ saved.next_next_arrow = 8
  /\ next_arrow = 8
  /\ next_next_arrow = 5


-----------------------------------------------------------------------------
(* Properties of a drop of the next arrow                                  *)

\* C39: a drop of the next arrow onto an occupied cell is rejected:
\* insertNewArrow returns false and the board, next_arrow, next_next_arrow and
\* arrows_placed stay as they are; a successful drop puts exactly one arrow,
\* the current next_arrow, into the column, makes next_next_arrow the new
\* next_arrow and adds exactly 1 to arrows_placed.
C39_DropOnOccupiedRejected ==
  [][ /\ (Inserted /\ cells[grid_id(dropped'.i, dropped'.j)] # 0)
         => (/\ ~dropped'.ok
             /\ UNCHANGED <<cells, animating_columns, anims, next_arrow, next_next_arrow,
                            arrows_placed, score, spins_remaining>>)
      /\ (Inserted /\ dropped'.ok)
         => (/\ cells[grid_id(dropped'.i, dropped'.j)] = 0
             /\ dropped'.content = next_arrow
             /\ \A j \in Rows : \A v \in arrows :
                   Count(cells', anims', j, v)
                     = Count(cells, anims, j, v)
                         + (IF j = dropped'.j /\ v = next_arrow THEN 1 ELSE 0)
             /\ next_arrow' = next_next_arrow
             /\ next_next_arrow' \in valid_numbers
             /\ arrows_placed' = arrows_placed + 1) ]_vars

\* A drop on the top of a full column has been rejected.
C39_Witness ==
  /\ dropped.called
  /\ ~dropped.ok
  /\ cells[grid_id(dropped.i, dropped.j)] = 1
  /\ dropped.i = 0
  /\ anims = {}
  /\ arrows_placed = 5
  /\ next_arrow = 8
  /\ next_next_arrow = 1


-----------------------------------------------------------------------------
(* The cells a move may change                                             *)

\* Cell c is the source or the destination of move l, or stands above one of
\* them in its column.
InReach(l, c) ==
  \/ c \in {l.origin, l.dest}
  \/ ColOf(c) = ColOf(l.origin) /\ RowOf(c) < RowOf(l.origin)
  \/ ColOf(c) = ColOf(l.dest) /\ RowOf(c) < RowOf(l.dest)

\* C36: the handleAction call of an applied move and every gravity step after
\* it change only the source cell, the destination cell and cells above them
\* in their own columns, so that a cell of any other column holds after the
\* gravity what it held before the move; a move that is not applied changes
\* no cell.
C36_MoveFrame ==
  [][ /\ (Handled /\ Applied(last'))
         => \A c \in CellIds : cells'[c] # cells[c] => InReach(last', c)
      /\ (Handled /\ ~Applied(last')) => cells' = cells
      /\ (~Handled /\ Applied(last))
         => \A c \in CellIds : cells'[c] # cells[c] => InReach(last, c) ]_vars

\* 8 and the 3 to its left have cancelled each other and the 3s above them
\* have come down, next to columns of 3s that were left alone.
C36_Witness ==
  /\ Applied(last)
  /\ last.action = Cancel
  /\ last.src_content = 8
  /\ last.dest_content = 3
  /\ last.origin = 11
  /\ last.dest = 10
  /\ anims = {}
  /\ cells[10] = 3
  /\ cells[11] = 3
  /\ cells[0] = 0
  /\ cells[1] = 0
  /\ \A c \in CellIds : ColOf(c) > 1 => cells[c] = 3


-----------------------------------------------------------------------------
(* Gravity in different columns                                            *)

\* The world w with column j alone: the other columns empty, unlocked and
\* without chains.
Alone(w, j) ==
  World([c \in CellIds |-> IF ColOf(c) = j THEN w.cells[c] ELSE 0],
        w.animating_columns \cap {j},
        ChainsIn(w.anims, j))

\* The world the callback of anim_env leaves when it runs in world w.
AfterStep(w, anim_env) ==
  IF anim_env.k < 4 /\ can_be_dropped_to(w.cells, anim_env.i + anim_env.k + 1, anim_env.j)
  THEN updateEnvironmentMidAnimation(w, anim_env)
  ELSE updateEnvironmentPostAnimation(w, anim_env)

\* C35: the callback of a chain of column j changes no cell of another column,
\* removes no other column from animating_columns and touches no chain of
\* another column, and what it does to column j is what it would do if column
\* j were the only one falling; so the chains of different columns do not
\* interfere and each column ends as if its chains had run alone.
C35_ColumnsDoNotInterfere ==
  [][ \A anim_env \in anims \ anims' :
        LET j == anim_env.j
            alone == AfterStep(Alone(World(cells, animating_columns, anims), j), anim_env)
        IN  /\ \A c \in CellIds : ColOf(c) # j => cells'[c] = cells[c]
            /\ animating_columns \ animating_columns' \subseteq {j}
            /\ \A other \in anims : other.j # j => other \in anims'
            /\ \A c \in CellIds : ColOf(c) = j => cells'[c] = alone.cells[c]
            /\ ChainsIn(anims', j) = alone.anims
            /\ (j \in animating_columns') = (j \in alone.animating_columns) ]_vars

\* After a Cancel across columns 1 and 0, column 1 has finished falling and
\* is unlocked while a chain of column 0 is still in flight.
C35_Witness ==
  /\ Applied(last)
  /\ last.action = Cancel
  /\ last.origin = 11
  /\ last.dest = 10
  /\ animating_columns = {0}
  /\ \E anim_env \in anims : anim_env.j = 0
  /\ ChainsIn(anims, 1) = {}
  /\ cells[11] = 3
  /\ cells[1] = 0


-----------------------------------------------------------------------------
(* The count of the arrows on the board                                    *)

\* The arrows on the board: those in cells and those a chain is carrying.
ArrowsOnBoard(g, an) == Cardinality({c \in CellIds : g[c] \in arrows}) + Cardinality(an)

\* C31: whatever drops, moves, gravity steps, resets and restores have
\* happened, arrows_placed is the number of arrows on the board, counting the
\* cells that hold an arrow and the arrows in flight.
C31_ArrowsPlacedIsTheCount ==
  page = "live" => arrows_placed = ArrowsOnBoard(cells, anims)


-----------------------------------------------------------------------------
(* SpecFull: a page load from a stored full board, then one move           *)

\* The stored boards are boards of 17s with two other cells.
FullCells == {12, 18, 19, 23}

FullArrows == {5, 17, 23, 40}

\* The page is loaded with a stored board whose 25 cells hold arrows.
InitFull ==
  \E s \in FullCells, a \in FullArrows, b \in FullArrows :
     Loading([did_save_content |-> TRUE, cells |-> PairBoard(17, s, a, 24, b),
              next_arrow |-> 5, next_next_arrow |-> 8,
              spins |-> toString(3), score |-> toString(0)])

\* After the load the player presses one of the two cells and releases it on
\* a neighbour or outside the grid.
FullPress ==
  /\ page = "live"
  /\ last = NoLocals
  /\ ~na_drag
  /\ \E n \in FullCells \cup {24} : GridDrag(n)

FullRelease ==
  \E p \in DropPoints : (p = Outside \/ p - drag.origin \in action_dists) /\ HandleAction(p)

NextFull == InitializeGame \/ FullPress \/ FullRelease \/ Fall

SpecFull == InitFull /\ [][NextFull]_vars

\* handleAction would apply an action for some pair of cells of grid g.
SomeLegalAction(g) == \E s \in CellIds, n \in action_dists : Accepted(g, s, s + n)

\* C34: when initializeGame restores a board whose 25 cells are occupied, the
\* end-game check runs, and game over fires exactly when no pair of cells of
\* the restored board, cell 24 included, admits a legal action.
C34_RestoreScansWholeBoard ==
  [][ (page # "live" /\ page' = "live" /\ \A c \in CellIds : cells'[c] \in arrows)
      => /\ end_game'.called
         /\ game_over' <=> ~SomeLegalAction(cells') ]_vars

\* C32: the end of the game fires only in a state in which the 25 cells hold
\* arrows, no gravity chain is in flight and no pair of cells admits a legal
\* action.
C32_GameOverIsSound ==
  [][ (~game_over /\ game_over')
      => /\ \A c \in CellIds : cells'[c] \in arrows
         /\ anims' = {}
         /\ ~SomeLegalAction(cells') ]_vars


-----------------------------------------------------------------------------
(* SpecFill: a game played until the board is full                         *)

FillArrows == {1, 10}

\* The arrow the player wants in cell c: rows of 1 and rows of 10 in turn,
\* a board on which no pair of cells admits an action.
Pattern(c) == IF RowOf(c) \in {0, 2, 4} THEN 1 ELSE 10

\* The columns of grid g whose top cell is empty.
OpenColumns(g) == {j \in Rows : g[grid_id(0, j)] = 0}

\* The leftmost of them, and its lowest empty row.
FillColumn(g) == CHOOSE j \in OpenColumns(g) : \A q \in OpenColumns(g) : j <= q

LowestEmpty(g, j) == CHOOSE r \in Rows : g[grid_id(r, j)] = 0 /\ EmptyBelow(g, r + 1, j) = {}

\* The state loadNewGame leaves when the page is loaded without a saved game.
InitFill ==
  \E rand1 \in FillArrows, rand2 \in FillArrows :
     /\ cells = clearGrid(World(FreshGrid, {}, {}), 0).cells
     /\ score = 0
     /\ spins_remaining = 3
     /\ arrows_placed = 0
     /\ animating_columns = {}
     /\ anims = {}
     /\ drag = NoDrag
     /\ last = NoLocals
     /\ next_arrow = rand1
     /\ next_next_arrow = rand2
     /\ na_drag = FALSE
     /\ dropped = NoDrop
     /\ game_over = FALSE
     /\ gravity_call = NoCall
     /\ end_game = NoCheck
     /\ saved = NoSave
     /\ page = "live"

\* The player fills the columns from left to right: when the board is at rest
\* and the next arrow is the one wanted in the lowest empty cell of the
\* leftmost open column, the player takes it and releases it on the top cell
\* of that column.
FillPress ==
  /\ anims = {}
  /\ OpenColumns(cells) # {}
  /\ next_arrow = Pattern(grid_id(LowestEmpty(cells, FillColumn(cells)), FillColumn(cells)))
  /\ NewArrowDrag

FillRelease ==
  /\ OpenColumns(cells) # {}
  /\ DropNewArrowOf(grid_id(0, FillColumn(cells)), FillArrows)

\* The reset button is pressed while the first arrow of a game is falling.
FillReset == anims # {} /\ arrows_placed = 1 /\ ~na_drag /\ ResetGame

NextFill == FillPress \/ FillRelease \/ FillReset \/ Fall

SpecFill == InitFill /\ [][NextFill]_vars

\* C33: in every state in which the 25 cells hold arrows, no gravity chain is
\* in flight and no pair of cells admits a legal action, the end of the game
\* has been fired.
C33_GameOverIsComplete ==
  (/\ page = "live"
   /\ \A c \in CellIds : cells[c] \in arrows
   /\ anims = {}
   /\ ~SomeLegalAction(cells))
    => game_over

=============================================================================
